---------------------------- MODULE Spec2Model ----------------------------
(***************************************************************************)
(* The partitioned, resumable, parallel range-generation engine of the     *)
(* phone list generator (PhoneListGenerator3.py; Phonenumber.py has the    *)
(* same engine without the leading "+"; PhoneListGenerator2.py has the     *)
(* same chunk loop but its own progress functions).                        *)
(*                                                                         *)
(* The file system (progress.json and the output files) outlives a         *)
(* process; the controller process, its pool of worker processes and the   *)
(* user at the terminal are the actors.                                    *)
(***************************************************************************)
EXTENDS Integers, Sequences, FiniteSets, Bags, TLC

VARIABLES
    progress_json,        \* content of PROGRESS_FILE on disk
    out_files,            \* output file name -> content, or NoFile
    pc,                   \* where the controller process is
    area_codes,           \* main: area_codes (the prefix list of the run)
    state_name,           \* main: state_name ("None" for manual entry)
    current_state_name,   \* global current_state_name
    current_output_file,  \* global current_output_file
    global_start_from,    \* global global_start_from (the controller's copy)
    progress,             \* main: what load_progress returned
    resumed,              \* main: the user answered y to the resume prompt
    threads,              \* args.threads
    run_start,            \* global_start_from when the pool was created
    tasks,                \* the tasks handed to executor.map, in order
    status,               \* per task: pending, queued, running, done, ...
    written,              \* per task: bytes it has appended so far
    cur,                  \* per worker process: its task, 0 idle, -1 gone
    sig_workers,          \* workers with a SIGINT not yet handled
    yielded,              \* results the for loop of main has consumed
    exit_code,            \* exit status of the controller, -1 while alive
    last_writer,          \* who wrote progress.json last
    saved_by,             \* the prefix list of the run that wrote it
    interrupts,           \* SIGINTs sent so far
    plan_args,            \* planner under test: its arguments
    plan_out              \* planner under test: the chunks yielded so far

vars == <<progress_json, out_files, pc, area_codes, state_name,
          current_state_name, current_output_file, global_start_from,
          progress, resumed, threads, run_start, tasks, status, written,
          cur, sig_workers, yielded, exit_code, last_writer, saved_by,
          interrupts, plan_args, plan_out>>

fs_vars   == <<progress_json, out_files, last_writer, saved_by>>
main_vars == <<pc, area_codes, state_name, current_state_name,
               current_output_file, global_start_from, progress, resumed,
               threads, run_start, yielded, exit_code>>
pool_vars == <<tasks, status, written, cur, sig_workers>>
plan_vars == <<plan_args, plan_out>>

---------------------------------------------------------------------------
(* Bounds of the model *)

\* The source cuts a prefix's space into 10 chunks (chunk_size = 1_000_000);
\* the engine is explored with fewer, larger chunks.
ChunksPerPrefix == 4
\* Longest prefix list the user enters.
MaxAreaCodes == 2
\* Largest --threads value.
MaxThreads == 2
\* SIGINTs the environment sends over the life of the working directory.
MaxInterrupts == 1
\* Places inside one chunk's stream of write calls where another process is
\* seen to run; the writes after the last such place are taken as one step.
MaxPreempt == 1
\* Chunk tasks that fail (a write error) in one run.
MaxFailures == 1

---------------------------------------------------------------------------
(* Program constants *)

SPACE == 10000000
DefaultChunkSize == 1000000
BUFFERING == 1024 * 1024
\* the text layer of open() hands its pending lines down in pieces of at
\* most this many bytes
TEXT_CHUNK == 8 * 1024
OUTPUT_DIR == "PhoneListGenerator"
SuffixDigits == 7

\* chunk_size of main, scaled by the bound above (1_000_000 for 10 chunks)
chunk_size == SPACE \div ChunksPerPrefix

Min(a, b) == IF a < b THEN a ELSE b

None == "None"

---------------------------------------------------------------------------
(* Inputs *)

COUNTRY == "1"
AreaCodeInputs == {"212", "415"}
\* manual entry: any list of 1..n area codes, repeats included
ManualLists ==
    UNION {[1..n -> AreaCodeInputs] : n \in 1..MaxAreaCodes}
\* ac.get_area_codes(state): the library's table, one state of it
StateInputs == {"NY"}
StateAreaCodes(state) == IF state = "NY" THEN <<"212">> ELSE << >>
StateLabel(state) == IF state = "NY" THEN "New York" ELSE state
TODAY == "2025-11-20"

---------------------------------------------------------------------------
(* Helper functions *)

get_safe_state_name(state_input) == StateLabel(state_input)

get_output_filename(country, state) ==
    LET country_label == IF country = "1" THEN "US" ELSE "Country" \o country
        state_label == IF state # None THEN get_safe_state_name(state)
                       ELSE "Custom"
    IN OUTPUT_DIR \o "/" \o country_label \o "_" \o state_label \o "_"
       \o TODAY \o ".txt"

OutputFileNames ==
    {get_output_filename(COUNTRY, s) : s \in StateInputs \cup {None}}

---------------------------------------------------------------------------
(* Core generation logic: the planner *)

\* range(start, stop, step) of Python for step > 0
RECURSIVE PyRange(_, _, _)
PyRange(start, stop, step) ==
    IF start >= stop THEN << >>
    ELSE <<start>> \o PyRange(start + step, stop, step)

Task(area_code, country, start, end, outfile) ==
    [area_code |-> area_code, country_code |-> country, start |-> start,
     end |-> end, outfile |-> outfile]

ChunkEndUnclipped(start, csize) == start + csize

ChunkEnd(start, csize) == Min(start + csize, SPACE)

ChunksOfDescending(area_code, country, start_from, csize, outfile) ==
    LET starts == PyRange(start_from, SPACE, csize)
        n == Len(starts)
    IN [k \in 1..n |->
          Task(area_code, country, starts[n + 1 - k],
               ChunkEnd(starts[n + 1 - k], csize), outfile)]

ChunksOf(area_code, country, start_from, csize, outfile) ==
    LET starts == PyRange(start_from, SPACE, csize)
    IN [k \in 1..Len(starts) |->
          Task(area_code, country, starts[k], ChunkEnd(starts[k], csize),
               outfile)]

RECURSIVE task_generator(_, _, _, _, _)
task_generator(country, codes, start_from, csize, outfile) ==
    IF codes = << >> THEN << >>
    ELSE ChunksOf(Head(codes), country, start_from, csize, outfile)
         \o task_generator(country, Tail(codes), start_from, csize, outfile)

\* PhoneListGenerator2.py: the same loop, building a list, one file per code
PerPrefixFile(country, area_code) ==
    "numbers_+" \o country \o area_code \o ".txt"

RECURSIVE generate_task_list(_, _, _, _)
generate_task_list(country, codes, start_from, csize) ==
    IF codes = << >> THEN << >>
    ELSE ChunksOf(Head(codes), country, start_from, csize,
                  PerPrefixFile(country, Head(codes)))
         \o generate_task_list(country, Tail(codes), start_from, csize)

---------------------------------------------------------------------------
(* Core generation logic: what a chunk puts into its file *)

\* f"{prefix}{i:07d}\n" with prefix = "+" country_code area_code
LineLen(task) ==
    Len("+" \o task.country_code \o task.area_code) + SuffixDigits + 1

ChunkBytes(task) == (task.end - task.start) * LineLen(task)

\* writelines hands whole lines to the text layer, which passes them on in
\* pieces of whole lines; the buffer of `buffering` bytes is written out
\* when the next piece does not fit, so every write call carries whole lines.
PieceBytes(linelen) == (TEXT_CHUNK \div linelen) * linelen

BlockBytesUnaligned(linelen) == BUFFERING

BlockBytes(linelen) ==
    (BUFFERING \div PieceBytes(linelen)) * PieceBytes(linelen)

\* bytes of the chunk in the file after its next step of writing
NextWritten(task, sofar) ==
    LET block == BlockBytes(LineLen(task))
    IN IF sofar \div block < MaxPreempt /\ sofar + block < ChunkBytes(task)
       THEN sofar + block
       ELSE ChunkBytes(task)

\* a line of the file: the prefix's area code and the number; NoLine in an
\* empty file
NoLine == [area_code |-> "", n |-> -1]
Line(area_code, n) == [area_code |-> area_code, n |-> n]

\* A file is the bag of the pieces of chunks appended to it (a chunk being
\* written is one growing piece), who appended last, whether the file ends
\* inside a line, whether bytes of one chunk were ever appended behind
\* an unfinished line of another, and its first and its last line.
NoFile ==
    [exists |-> FALSE, segs |-> EmptyBag, last |-> 0, mid |-> FALSE,
     torn |-> FALSE, head |-> NoLine, tail |-> NoLine]
EmptyFile ==
    [exists |-> TRUE, segs |-> EmptyBag, last |-> 0, mid |-> FALSE,
     torn |-> FALSE, head |-> NoLine, tail |-> NoLine]

Seg(task, bytes) ==
    [area_code |-> task.area_code, country_code |-> task.country_code,
     start |-> task.start, end |-> task.end, bytes |-> bytes]

\* open(outfile, "a") and one write call of task number t
AppendTo(file, t, task, sofar, now) ==
    LET base == IF sofar > 0
                THEN file.segs (-) SetToBag({Seg(task, sofar)})
                ELSE file.segs
    IN [exists |-> TRUE,
        segs |-> base (+) SetToBag({Seg(task, now)}),
        last |-> t,
        mid |-> (now % LineLen(task) # 0),
        torn |-> (file.torn \/ (file.mid /\ file.last # t)),
        head |-> IF file.head = NoLine
                 THEN Line(task.area_code, task.start)
                 ELSE file.head,
        tail |-> Line(task.area_code,
                      task.start + (now \div LineLen(task)) - 1)]

\* a later process knows nothing of the task numbers of an earlier one
Settled(file) == [file EXCEPT !.last = 0]

\* what one piece contributes to a count q over the file: its whole lines,
\* its bytes, or the whole line of number q.n of a prefix
Measure(seg, q) ==
    IF q.what = "lines" THEN seg.bytes \div LineLen(seg)
    ELSE IF q.what = "bytes" THEN seg.bytes
    ELSE IF /\ seg.area_code = q.area_code
            /\ seg.country_code = q.country_code
            /\ seg.start <= q.n
            /\ q.n < seg.end
            /\ (q.n - seg.start + 1) * LineLen(seg) <= seg.bytes
         THEN 1 ELSE 0

RECURSIVE SumBag(_, _, _)
SumBag(bag, elems, q) ==
    IF elems = {} THEN 0
    ELSE LET e == CHOOSE x \in elems : TRUE
         IN bag[e] * Measure(e, q) + SumBag(bag, elems \ {e}, q)

Query(what, country, area_code, n) ==
    [what |-> what, country_code |-> country, area_code |-> area_code,
     n |-> n]

\* whole lines in the file
WholeLines(file) ==
    SumBag(file.segs, BagToSet(file.segs), Query("lines", "", "", 0))

\* os.path.getsize
FileSize(file) ==
    SumBag(file.segs, BagToSet(file.segs), Query("bytes", "", "", 0))

\* how many times the whole line of number n of a prefix is in the file
Copies(file, country, area_code, n) ==
    SumBag(file.segs, BagToSet(file.segs),
           Query("copies", country, area_code, n))

---------------------------------------------------------------------------
(* Progress & signal handling *)

\* JSON values as far as the program tells them apart.  kind: absent (no
\* file), garbage (not JSON), dict, emptydict, list, number, zero.
\* start_kind says what the dict has under "start_from".
Json(kind, start_kind, start_from, state, output_file) ==
    [kind |-> kind, start_kind |-> start_kind, start_from |-> start_from,
     state |-> state, output_file |-> output_file]

Absent == Json("absent", "missing", 0, None, None)
PyNone == Json("none", "missing", 0, None, None)

Record(position, state, output_file) ==
    Json("dict", "int", position, state, output_file)

\* save_progress(position), run in a process whose globals are given
save_progress(position, g_state_name, g_output_file) ==
    Record(position, g_state_name, g_output_file)

load_progress(file) ==
    IF file.kind = "absent" THEN PyNone
    ELSE IF file.kind = "garbage" THEN PyNone
    ELSE file

Truthy(value) == value.kind \notin {"none", "emptydict", "zero"}

---------------------------------------------------------------------------
(* The pool: ProcessPoolExecutor(max_workers=threads) and executor.map *)

NTasks == Len(tasks)
TaskIds == 1..NTasks
Workers == 1..threads
QueuedIds == {t \in TaskIds : status[t] = "queued"}
Lowest(ids) == CHOOSE t \in ids : \A u \in ids : t <= u

\* the call queue of the pool holds max_workers + 1 calls
CallQueueSize(nthreads) == nthreads + 1

\* each time the pool's manager thread has taken a result it tops the call
\* queue up with the next pending calls (calls being run hold no slot)
Refill(st, nthreads) ==
    LET pending == {t \in DOMAIN st : st[t] = "pending"}
        queued == {t \in DOMAIN st : st[t] = "queued"}
        free == CallQueueSize(nthreads) - Cardinality(queued)
    IN IF pending = {} \/ free <= 0 THEN st
       ELSE [t \in DOMAIN st |->
               IF st[t] = "pending" /\ t < Lowest(pending) + free
               THEN "queued" ELSE st[t]]

\* lines 204-208: the generator is drained by executor.map, which submits
\* every task before the first result is waited for
StartPool(start_from, outfile, codes, nthreads) ==
    LET all == task_generator(COUNTRY, codes, start_from, chunk_size, outfile)
    IN /\ tasks' = all
       /\ status' = [t \in 1..Len(all) |->
                       IF t <= CallQueueSize(nthreads) THEN "queued"
                       ELSE "pending"]
       /\ written' = [t \in 1..Len(all) |-> 0]
       /\ cur' = [w \in 1..nthreads |-> 0]
       /\ sig_workers' = {}
       /\ yielded' = 0
       /\ run_start' = start_from

NoPool ==
    /\ tasks' = << >>
    /\ status' = << >>
    /\ written' = << >>
    /\ cur' = << >>
    /\ sig_workers' = {}
    /\ yielded' = 0
    /\ run_start' = 0

---------------------------------------------------------------------------
(* main *)

ConfigInputs ==
    {<<codes, None>> : codes \in ManualLists}
    \cup {<<StateAreaCodes(s), s>> : s \in StateInputs}

ThreadInputs == 1..MaxThreads

\* lines 173-183 and, when no progress is offered, 193-208
Configure(codes, state, nthreads) ==
    LET outfile == get_output_filename(COUNTRY, state)
        touched == IF out_files[outfile].exists THEN out_files[outfile]
                   ELSE EmptyFile
        loaded == load_progress(progress_json)
    IN /\ pc = "prompt_config"
       /\ area_codes' = codes
       /\ state_name' = state
       /\ current_state_name' = state
       /\ current_output_file' = outfile
       /\ threads' = nthreads
       /\ progress' = loaded
       /\ resumed' = FALSE
       /\ UNCHANGED <<progress_json, last_writer, saved_by, interrupts,
                      plan_vars>>
       /\ IF Truthy(loaded) /\ loaded.kind # "dict"
          THEN \* progress.get: AttributeError
               /\ pc' = "crashed"
               /\ exit_code' = 1
               /\ out_files' = [out_files EXCEPT ![outfile] = touched]
               /\ UNCHANGED global_start_from
               /\ NoPool
          ELSE IF Truthy(loaded) /\ loaded.output_file = outfile
          THEN /\ pc' = "prompt_resume"
               /\ out_files' = [out_files EXCEPT ![outfile] = touched]
               /\ UNCHANGED <<global_start_from, exit_code>>
               /\ NoPool
          ELSE /\ pc' = "running"
               /\ global_start_from' = 0
               /\ out_files' = [out_files EXCEPT ![outfile] = EmptyFile]
               /\ UNCHANGED exit_code
               /\ StartPool(0, outfile, codes, nthreads)

\* lines 185-192, then 199-208
ResumeAnswer(answer) ==
    /\ pc = "prompt_resume"
    /\ UNCHANGED <<progress_json, last_writer, saved_by, interrupts,
                   plan_vars, area_codes, state_name, current_state_name,
                   current_output_file, threads, progress>>
    /\ IF answer = "y"
       THEN IF progress.start_kind = "str"
            THEN \* the offset is printed with format ",": ValueError
                 /\ pc' = "crashed"
                 /\ exit_code' = 1
                 /\ resumed' = TRUE
                 /\ UNCHANGED <<global_start_from, out_files>>
                 /\ NoPool
            ELSE LET start == IF progress.start_kind = "missing" THEN 0
                              ELSE progress.start_from
                 IN /\ pc' = "running"
                    /\ global_start_from' = start
                    /\ resumed' = TRUE
                    /\ UNCHANGED <<out_files, exit_code>>
                    /\ StartPool(start, current_output_file, area_codes,
                                 threads)
       ELSE /\ pc' = "running"
            /\ global_start_from' = 0
            /\ resumed' = FALSE
            /\ out_files' = [out_files EXCEPT
                                ![current_output_file] = EmptyFile]
            /\ UNCHANGED exit_code
            /\ StartPool(0, current_output_file, area_codes, threads)

\* lines 208-211: one turn of the for loop over executor.map, whose results
\* come in the order of the tasks
MainYield ==
    /\ pc = "running"
    /\ yielded < NTasks
    /\ status[yielded + 1] = "done"
    /\ yielded' = yielded + 1
    /\ global_start_from' = global_start_from + chunk_size
    /\ UNCHANGED <<fs_vars, pc, area_codes, state_name, current_state_name,
                   current_output_file, progress, resumed, threads,
                   run_start, exit_code, tasks, status, written, cur,
                   sig_workers, interrupts, plan_vars>>

\* lines 213-225: final cleanup
Complete ==
    /\ pc = "running"
    /\ yielded = NTasks
    /\ pc' = "done"
    /\ exit_code' = 0
    /\ out_files' =
         [out_files EXCEPT ![current_output_file] =
            IF FileSize(@) = 0 THEN NoFile ELSE @]
    /\ progress_json' = Absent
    /\ last_writer' = "nobody"
    /\ saved_by' = << >>
    /\ UNCHANGED <<area_codes, state_name, current_state_name,
                   current_output_file, global_start_from, progress,
                   resumed, threads, run_start, yielded, pool_vars,
                   interrupts, plan_vars>>

---------------------------------------------------------------------------
(* generate_chunk in a worker process *)

WorkerTake(w) ==
    /\ pc \in {"running", "exiting", "failing"}
    /\ w \in Workers
    /\ cur[w] = 0
    /\ w \notin sig_workers
    /\ QueuedIds # {}
    /\ LET t == Lowest(QueuedIds)
       IN /\ status' = [status EXCEPT ![t] = "running"]
          /\ cur' = [cur EXCEPT ![w] = t]
    /\ UNCHANGED <<fs_vars, main_vars, tasks, written, sig_workers,
                   interrupts, plan_vars>>

\* lines 121-122: the next write call (or calls) of the chunk
WorkerWrite(w) ==
    /\ pc \in {"running", "exiting", "failing"}
    /\ w \in Workers
    /\ cur[w] > 0
    /\ LET t == cur[w]
           task == tasks[t]
           now == NextWritten(task, written[t])
       IN /\ written[t] < ChunkBytes(task)
          /\ written' = [written EXCEPT ![t] = now]
          /\ out_files' = [out_files EXCEPT ![task.outfile] =
                              AppendTo(@, t, task, written[t], now)]
    /\ UNCHANGED <<progress_json, last_writer, saved_by, main_vars, tasks,
                   status, cur, sig_workers, interrupts, plan_vars>>

\* generate_chunk returns; the result reaches the pool's manager thread
WorkerFinish(w) ==
    /\ pc \in {"running", "exiting", "failing"}
    /\ w \in Workers
    /\ cur[w] > 0
    /\ w \notin sig_workers
    /\ written[cur[w]] = ChunkBytes(tasks[cur[w]])
    /\ status' = Refill([status EXCEPT ![cur[w]] = "done"], threads)
    /\ cur' = [cur EXCEPT ![w] = 0]
    /\ UNCHANGED <<fs_vars, main_vars, tasks, written, sig_workers,
                   interrupts, plan_vars>>

\* lines 121-122 raise OSError (the disk is full, the file cannot be
\* opened): nothing more of the chunk is written and the exception is the
\* result of the call
WorkerFail(w) ==
    /\ pc \in {"running", "exiting", "failing"}
    /\ w \in Workers
    /\ cur[w] > 0
    /\ w \notin sig_workers
    /\ written[cur[w]] < ChunkBytes(tasks[cur[w]])
    /\ Cardinality({t \in TaskIds : status[t] = "failed"}) < MaxFailures
    /\ status' = Refill([status EXCEPT ![cur[w]] = "failed"], threads)
    /\ cur' = [cur EXCEPT ![w] = 0]
    /\ UNCHANGED <<fs_vars, main_vars, tasks, written, sig_workers,
                   interrupts, plan_vars>>

\* line 208: the result the for loop waits for is an exception, which
\* executor.map raises in main.  Its results generator cancels the calls
\* still pending and leaving the with block waits for the queued ones.
MainRaise ==
    /\ pc = "running"
    /\ yielded < NTasks
    /\ status[yielded + 1] = "failed"
    /\ pc' = "failing"
    /\ status' = [t \in TaskIds |->
                    IF status[t] = "pending" THEN "cancelled" ELSE status[t]]
    /\ UNCHANGED <<fs_vars, area_codes, state_name, current_state_name,
                   current_output_file, global_start_from, progress,
                   resumed, threads, run_start, yielded, exit_code, tasks,
                   written, cur, sig_workers, interrupts, plan_vars>>

\* the exception leaves main uncaught: traceback, exit status 1; lines
\* 213-225 are not reached
MainCrash ==
    /\ pc = "failing"
    /\ \A t \in TaskIds : status[t] \notin {"queued", "running"}
    /\ pc' = "failed"
    /\ exit_code' = 1
    /\ UNCHANGED <<fs_vars, area_codes, state_name, current_state_name,
                   current_output_file, global_start_from, progress,
                   resumed, threads, run_start, yielded, pool_vars,
                   interrupts, plan_vars>>

---------------------------------------------------------------------------
(* SIGINT *)

\* lines 152-156 in the controller.  sys.exit(0) unwinds main: the results
\* generator of executor.map cancels the calls still pending, and leaving
\* the with block waits for the calls already in the call queue.
\* group: the signal goes to the whole foreground process group (Ctrl-C).
Interrupt(group) ==
    /\ interrupts < MaxInterrupts
    /\ pc \in {"prompt_config", "prompt_resume", "running", "failing"}
    /\ interrupts' = interrupts + 1
    /\ progress_json' = save_progress(global_start_from, current_state_name,
                                      current_output_file)
    /\ last_writer' = "controller"
    /\ saved_by' = IF pc = "prompt_config" THEN << >> ELSE area_codes
    /\ IF pc \in {"running", "failing"}
       THEN /\ pc' = "exiting"
            /\ status' = [t \in TaskIds |->
                            IF status[t] = "pending" THEN "cancelled"
                            ELSE status[t]]
            /\ sig_workers' = IF group THEN Workers ELSE {}
            /\ UNCHANGED exit_code
       ELSE /\ group = FALSE
            /\ pc' = "exited"
            /\ exit_code' = 0
            /\ UNCHANGED <<status, sig_workers>>
    /\ UNCHANGED <<out_files, area_codes, state_name, current_state_name,
                   current_output_file, global_start_from, progress,
                   resumed, threads, run_start, yielded, tasks, written,
                   cur, plan_vars>>

\* lines 152-158 in a worker: the handler was installed before the pool
\* forked, so a worker runs it on its own copy of the globals.  Python runs
\* it between two bytecodes: before the lines are written or after
\* writelines has returned.  Inside generate_chunk the SystemExit becomes
\* the result of the call and the worker goes on; an idle worker exits.
WorkerSignal(w) ==
    /\ pc = "exiting"
    /\ w \in sig_workers
    /\ \/ cur[w] = 0
       \/ /\ cur[w] > 0
          /\ written[cur[w]] \in {0, ChunkBytes(tasks[cur[w]])}
    /\ sig_workers' = sig_workers \ {w}
    /\ progress_json' = save_progress(run_start, current_state_name,
                                      current_output_file)
    /\ last_writer' = "worker"
    /\ saved_by' = area_codes
    /\ IF cur[w] > 0
       THEN /\ status' = Refill([status EXCEPT ![cur[w]] = "raised"], threads)
            /\ cur' = [cur EXCEPT ![w] = 0]
       ELSE /\ cur' = [cur EXCEPT ![w] = -1]
            /\ UNCHANGED status
    /\ UNCHANGED <<out_files, main_vars, tasks, written, interrupts,
                   plan_vars>>

\* a worker process is gone: the pool is broken, its manager thread fails
\* the calls that are left and terminates the other workers
TerminateBroken ==
    /\ pc = "exiting"
    /\ \E w \in Workers : cur[w] = -1
    /\ \/ \E w \in Workers : cur[w] >= 0
       \/ QueuedIds # {}
    /\ status' = [t \in TaskIds |->
                    IF status[t] = "running" THEN "killed"
                    ELSE IF status[t] = "queued" THEN "broken"
                    ELSE status[t]]
    /\ cur' = [w \in Workers |-> -1]
    /\ sig_workers' = {}
    /\ UNCHANGED <<fs_vars, main_vars, tasks, written, interrupts,
                   plan_vars>>

\* the with block is left once no call is queued or running; exit status 0
MainExit ==
    /\ pc = "exiting"
    /\ sig_workers = {}
    /\ \A t \in TaskIds : status[t] \notin {"queued", "running"}
    /\ pc' = "exited"
    /\ exit_code' = 0
    /\ UNCHANGED <<fs_vars, area_codes, state_name, current_state_name,
                   current_output_file, global_start_from, progress,
                   resumed, threads, run_start, yielded, pool_vars,
                   interrupts, plan_vars>>

\* the user starts the program again in the same directory; area_codes,
\* state_name and threads keep what was typed last until the new process
\* has asked for them
Restart ==
    /\ pc = "exited"
    /\ pc' = "prompt_config"
    /\ UNCHANGED <<area_codes, state_name, threads>>
    /\ current_state_name' = None
    /\ current_output_file' = None
    /\ global_start_from' = 0
    /\ progress' = PyNone
    /\ resumed' = FALSE
    /\ exit_code' = -1
    /\ NoPool
    /\ out_files' = [f \in DOMAIN out_files |-> Settled(out_files[f])]
    /\ UNCHANGED <<progress_json, last_writer, saved_by, interrupts,
                   plan_vars>>

---------------------------------------------------------------------------
(* PhoneListGenerator2.py: the same chunk loop with one file per area code, *)
(* submit and as_completed, and its own progress functions                 *)

\* json.dump({"start": global_start_from}): a dict with the one key "start"
V2Record(k) ==
    [kind |-> "dict", start_kind |-> "missing", start_from |-> 0,
     state |-> None, output_file |-> None, start |-> k]

\* load_progress of PhoneListGenerator2.py: no try around json.load
load_progress2(file) ==
    IF file.kind = "absent" THEN PyNone
    ELSE IF file.kind = "garbage" THEN Json("raise", "missing", 0, None, None)
    ELSE file

V2FileNames == {PerPrefixFile(COUNTRY, a) : a \in AreaCodeInputs}

\* generate_and_write_chunk writes line by line through the default buffer:
\* its write calls carry one piece of whole lines each
NextWritten2(task, sofar) ==
    LET block == PieceBytes(LineLen(task))
    IN IF sofar \div block < MaxPreempt /\ sofar + block < ChunkBytes(task)
       THEN sofar + block
       ELSE ChunkBytes(task)

\* lines 30-44: the files are touched, the task list is built and every
\* task is submitted
V2StartPool(start_from, codes, nthreads) ==
    LET all == generate_task_list(COUNTRY, codes, start_from, chunk_size)
        touched == {PerPrefixFile(COUNTRY, codes[j]) : j \in 1..Len(codes)}
    IN /\ tasks' = all
       /\ status' = Refill([t \in 1..Len(all) |-> "pending"], nthreads)
       /\ written' = [t \in 1..Len(all) |-> 0]
       /\ cur' = [w \in 1..nthreads |-> 0]
       /\ sig_workers' = {}
       /\ yielded' = 0
       /\ run_start' = start_from
       /\ out_files' = [f \in DOMAIN out_files |->
                          IF f \in touched /\ ~out_files[f].exists
                          THEN EmptyFile ELSE out_files[f]]

\* lines 78-93 when no progress is offered, else up to the prompt of line 83
V2Configure(codes, nthreads) ==
    LET loaded == load_progress2(progress_json)
    IN /\ pc = "prompt_config"
       /\ area_codes' = codes
       /\ threads' = nthreads
       /\ progress' = loaded
       /\ resumed' = FALSE
       /\ UNCHANGED <<progress_json, last_writer, saved_by, interrupts,
                      plan_vars, state_name, current_state_name,
                      current_output_file>>
       /\ IF loaded.kind = "raise"
          THEN /\ pc' = "crashed"
               /\ exit_code' = 1
               /\ UNCHANGED <<global_start_from, out_files>>
               /\ NoPool
          ELSE IF Truthy(loaded)
          THEN /\ pc' = "prompt_resume"
               /\ UNCHANGED <<global_start_from, exit_code, out_files>>
               /\ NoPool
          ELSE /\ pc' = "running"
               /\ global_start_from' = 0
               /\ UNCHANGED exit_code
               /\ V2StartPool(0, codes, nthreads)

\* lines 83-84, then 88-93
V2ResumeAnswer(answer) ==
    /\ pc = "prompt_resume"
    /\ UNCHANGED <<progress_json, last_writer, saved_by, interrupts,
                   plan_vars, area_codes, state_name, current_state_name,
                   current_output_file, threads, progress>>
    /\ resumed' = (answer = "y")
    /\ IF answer = "y" /\ (progress.kind # "dict"
                             \/ "start" \notin DOMAIN progress)
       THEN \* progress["start"]: TypeError or KeyError
            /\ pc' = "crashed"
            /\ exit_code' = 1
            /\ UNCHANGED <<global_start_from, out_files>>
            /\ NoPool
       ELSE LET start == IF answer = "y" THEN progress.start ELSE 0
            IN /\ pc' = "running"
               /\ global_start_from' = start
               /\ UNCHANGED exit_code
               /\ V2StartPool(start, area_codes, threads)

\* lines 25-27: the next write call (or calls) of the chunk
V2WorkerWrite(w) ==
    /\ pc \in {"running", "exiting"}
    /\ w \in Workers
    /\ cur[w] > 0
    /\ LET t == cur[w]
           task == tasks[t]
           now == NextWritten2(task, written[t])
       IN /\ written[t] < ChunkBytes(task)
          /\ written' = [written EXCEPT ![t] = now]
          /\ out_files' = [out_files EXCEPT ![task.outfile] =
                              AppendTo(@, t, task, written[t], now)]
    /\ UNCHANGED <<progress_json, last_writer, saved_by, main_vars, tasks,
                   status, cur, sig_workers, interrupts, plan_vars>>

\* lines 45-49: as_completed hands over one more finished future; an
\* exception of the chunk is caught and printed
V2Collect ==
    /\ pc = "running"
    /\ yielded < Cardinality({t \in TaskIds :
                                 status[t] \in {"done", "failed"}})
    /\ yielded' = yielded + 1
    /\ UNCHANGED <<fs_vars, pc, area_codes, state_name, current_state_name,
                   current_output_file, global_start_from, progress,
                   resumed, threads, run_start, exit_code, tasks, status,
                   written, cur, sig_workers, interrupts, plan_vars>>

\* lines 95-97: "Generation complete", main returns
V2Complete ==
    /\ pc = "running"
    /\ yielded = NTasks
    /\ pc' = "done"
    /\ exit_code' = 0
    /\ UNCHANGED <<fs_vars, area_codes, state_name, current_state_name,
                   current_output_file, global_start_from, progress,
                   resumed, threads, run_start, yielded, pool_vars,
                   interrupts, plan_vars>>

\* lines 61-67 in the controller: nothing cancels the submitted futures,
\* and leaving the with block waits for all of them
V2Interrupt ==
    /\ interrupts < MaxInterrupts
    /\ pc \in {"prompt_config", "prompt_resume", "running"}
    /\ interrupts' = interrupts + 1
    /\ progress_json' = V2Record(global_start_from)
    /\ last_writer' = "controller"
    /\ saved_by' = IF pc = "prompt_config" THEN << >> ELSE area_codes
    /\ IF pc = "running"
       THEN /\ pc' = "exiting"
            /\ UNCHANGED exit_code
       ELSE /\ pc' = "exited"
            /\ exit_code' = 0
    /\ UNCHANGED <<out_files, area_codes, state_name, current_state_name,
                   current_output_file, global_start_from, progress,
                   resumed, threads, run_start, yielded, pool_vars,
                   plan_vars>>

\* sys.exit(0) has left the with block: every future has finished
V2Exit ==
    /\ pc = "exiting"
    /\ \A t \in TaskIds : status[t] \in {"done", "failed"}
    /\ pc' = "exited"
    /\ exit_code' = 0
    /\ UNCHANGED <<fs_vars, area_codes, state_name, current_state_name,
                   current_output_file, global_start_from, progress,
                   resumed, threads, run_start, yielded, pool_vars,
                   interrupts, plan_vars>>

---------------------------------------------------------------------------
(* The planner on its own *)

PlanIdle == [variant |-> "none", codes |-> << >>, start_from |-> 0,
             chunk_size |-> 1]
PlanStarts == {0, 1, 2500000, 3333333, 9000000, 9999999}
PlanChunkSizes ==
    {DefaultChunkSize, 2500000, 3000000, 4000000, 9999999, SPACE, 12000000}
PlanInputs ==
    [variant : {"generator", "list"},
     codes : {<<"212">>, <<"212", "415">>, <<"415", "415">>},
     start_from : PlanStarts,
     chunk_size : PlanChunkSizes]

PlanFull ==
    IF plan_args.variant = "generator"
    THEN task_generator(COUNTRY, plan_args.codes, plan_args.start_from,
                        plan_args.chunk_size, "out.txt")
    ELSE generate_task_list(COUNTRY, plan_args.codes, plan_args.start_from,
                            plan_args.chunk_size)

\* one next() on the generator
PlanNext ==
    /\ plan_args.variant = "generator"
    /\ ~plan_out.done
    /\ plan_out' =
         IF Len(plan_out.chunks) < Len(PlanFull)
         THEN [plan_out EXCEPT
                 !.chunks = Append(@, PlanFull[Len(plan_out.chunks) + 1])]
         ELSE [plan_out EXCEPT !.done = TRUE]
    /\ UNCHANGED <<fs_vars, main_vars, pool_vars, interrupts, plan_args>>

\* the loop that fills the list
PlanList ==
    /\ plan_args.variant = "list"
    /\ ~plan_out.done
    /\ plan_out' = [chunks |-> PlanFull, done |-> TRUE]
    /\ UNCHANGED <<fs_vars, main_vars, pool_vars, interrupts, plan_args>>

---------------------------------------------------------------------------
(* Specifications *)

InitProcess ==
    /\ area_codes = << >>
    /\ state_name = None
    /\ current_state_name = None
    /\ current_output_file = None
    /\ global_start_from = 0
    /\ progress = PyNone
    /\ resumed = FALSE
    /\ threads = 0
    /\ run_start = 0
    /\ tasks = << >>
    /\ status = << >>
    /\ written = << >>
    /\ cur = << >>
    /\ sig_workers = {}
    /\ yielded = 0
    /\ exit_code = -1
    /\ interrupts = 0

\* One run of the program in a directory it has not been run in before,
\* with at most MaxInterrupts SIGINTs.
Init ==
    /\ InitProcess
    /\ out_files = [f \in OutputFileNames |-> NoFile]
    /\ progress_json = Absent
    /\ last_writer = "nobody"
    /\ saved_by = << >>
    /\ pc = "prompt_config"
    /\ plan_args = PlanIdle
    /\ plan_out = [chunks |-> << >>, done |-> TRUE]

Next ==
    \/ \E in \in ConfigInputs, n \in ThreadInputs : Configure(in[1], in[2], n)
    \/ MainYield
    \/ Complete
    \/ \E w \in Workers : WorkerTake(w)
    \/ \E w \in Workers : WorkerWrite(w)
    \/ \E w \in Workers : WorkerFinish(w)
    \/ \E group \in BOOLEAN : Interrupt(group)
    \/ \E w \in Workers : WorkerSignal(w)
    \/ TerminateBroken
    \/ MainExit

Spec == Init /\ [][Next]_vars

\* Interrupted runs and the runs that follow them: the signal is sent to
\* the controller alone and the user comes back with the same settings.
SameSettings(codes, state, nthreads) ==
    \/ threads = 0
    \/ /\ codes = area_codes
       /\ state = state_name
       /\ nthreads = threads

NextResume ==
    \/ \E in \in ConfigInputs, n \in ThreadInputs :
          SameSettings(in[1], in[2], n) /\ Configure(in[1], in[2], n)
    \/ \E answer \in {"y", "n"} : ResumeAnswer(answer)
    \/ MainYield
    \/ Complete
    \/ \E w \in Workers : WorkerTake(w)
    \/ \E w \in Workers : WorkerWrite(w)
    \/ \E w \in Workers : WorkerFinish(w)
    \/ Interrupt(FALSE)
    \/ MainExit
    \/ Restart

SpecResume == Init /\ [][NextResume]_vars

\* Runs in which chunk tasks fail, with or without a signal to the
\* controller.
NextFail ==
    \/ \E in \in ConfigInputs, n \in ThreadInputs : Configure(in[1], in[2], n)
    \/ MainYield
    \/ Complete
    \/ \E w \in Workers : WorkerTake(w)
    \/ \E w \in Workers : WorkerWrite(w)
    \/ \E w \in Workers : WorkerFinish(w)
    \/ \E w \in Workers : WorkerFail(w)
    \/ MainRaise
    \/ MainCrash
    \/ Interrupt(FALSE)
    \/ MainExit

SpecFail == Init /\ [][NextFail]_vars

\* PhoneListGenerator2.py run in a fresh directory, or in the directory as
\* an interrupted run of it over area code 212 with one process has left
\* it (nothing cancels its chunks, so the file of 212 is complete); the
\* user enters one area code.
V2Lists == {codes \in ManualLists : Len(codes) = 1}

V2LeftFile(area_code) ==
    LET all == generate_task_list(COUNTRY, <<area_code>>, 0, chunk_size)
    IN [exists |-> TRUE,
        segs |-> SetToBag({Seg(all[t], ChunkBytes(all[t])) :
                              t \in 1..Len(all)}),
        last |-> 0, mid |-> FALSE, torn |-> FALSE,
        head |-> Line(area_code, 0), tail |-> Line(area_code, SPACE - 1)]

InitV2 ==
    /\ InitProcess
    /\ \/ /\ out_files = [f \in V2FileNames |-> NoFile]
          /\ progress_json = Absent
          /\ last_writer = "nobody"
          /\ saved_by = << >>
       \/ /\ out_files = [f \in V2FileNames |->
                             IF f = PerPrefixFile(COUNTRY, "212")
                             THEN V2LeftFile("212") ELSE NoFile]
          /\ progress_json = V2Record(0)
          /\ last_writer = "controller"
          /\ saved_by = <<"212">>
    /\ pc = "prompt_config"
    /\ plan_args = PlanIdle
    /\ plan_out = [chunks |-> << >>, done |-> TRUE]

NextV2 ==
    \/ \E codes \in V2Lists, n \in ThreadInputs : V2Configure(codes, n)
    \/ \E answer \in {"y", "n"} : V2ResumeAnswer(answer)
    \/ \E w \in Workers : WorkerTake(w)
    \/ \E w \in Workers : V2WorkerWrite(w)
    \/ \E w \in Workers : WorkerFinish(w)
    \/ \E w \in Workers : WorkerFail(w)
    \/ V2Collect
    \/ V2Complete
    \/ V2Interrupt
    \/ V2Exit

SpecV2 == InitV2 /\ [][NextV2]_vars

\* The start of a run in a directory holding any progress.json: one left by
\* an interrupted run of this program, of one of its variants, or damaged.
LoadOffsets == {0, chunk_size, SPACE, SPACE + chunk_size}
CustomFile == get_output_filename(COUNTRY, None)
SavedRecords ==
    {<<Record(k, None, CustomFile), codes>> :
        k \in LoadOffsets, codes \in ManualLists}
    \cup {<<Record(k, s, get_output_filename(COUNTRY, s)), StateAreaCodes(s)>> :
            k \in LoadOffsets, s \in StateInputs}
    \cup {<<Record(0, None, None), codes>> : codes \in ManualLists}
ForeignContents ==
    {Absent,
     Json("garbage", "missing", 0, None, None),
     Json("list", "missing", 0, None, None),
     Json("number", "missing", 0, None, None),
     Json("zero", "missing", 0, None, None),
     Json("emptydict", "missing", 0, None, None),
     Json("dict", "missing", 0, None, None),
     Json("dict", "missing", 0, None, CustomFile),
     Json("dict", "str", 0, None, CustomFile)}

InitLoad ==
    /\ InitProcess
    /\ out_files = [f \in OutputFileNames |-> NoFile]
    /\ \/ \E r \in SavedRecords :
             /\ progress_json = r[1]
             /\ saved_by = r[2]
             /\ last_writer = "controller"
       \/ /\ progress_json \in ForeignContents
          /\ saved_by = << >>
          /\ last_writer = "nobody"
    /\ pc = "prompt_config"
    /\ plan_args = PlanIdle
    /\ plan_out = [chunks |-> << >>, done |-> TRUE]

NextLoad ==
    \/ \E in \in ConfigInputs, n \in ThreadInputs : Configure(in[1], in[2], n)
    \/ \E answer \in {"y", "n"} : ResumeAnswer(answer)

SpecLoad == InitLoad /\ [][NextLoad]_vars

\* The same start of a run, with a SIGINT to the controller at any point
\* of it.
NextPrompt ==
    \/ \E in \in ConfigInputs, n \in ThreadInputs : Configure(in[1], in[2], n)
    \/ \E answer \in {"y", "n"} : ResumeAnswer(answer)
    \/ Interrupt(FALSE)

SpecPrompt == InitLoad /\ [][NextPrompt]_vars

\* the planner applied to bounded arguments
InitPlan ==
    /\ InitProcess
    /\ out_files = [f \in OutputFileNames |-> NoFile]
    /\ progress_json = Absent
    /\ last_writer = "nobody"
    /\ saved_by = << >>
    /\ pc = "plan"
    /\ plan_args \in PlanInputs
    /\ plan_out = [chunks |-> << >>, done |-> FALSE]

NextPlan == PlanNext \/ PlanList

SpecPlan == InitPlan /\ [][NextPlan]_vars

---------------------------------------------------------------------------
(* Properties *)

OutFile == out_files[current_output_file]

\* first and last number of every chunk of main's chunk_size
ChunkIndexes == 0..(ChunksPerPrefix - 1)
FirstOf(k) == k * chunk_size
LastOf(k) == (k + 1) * chunk_size - 1

\* chunks a prefix gets from start_from with chunks of csize
PlanCount(start_from, csize) ==
    IF start_from >= SPACE THEN 0
    ELSE (SPACE - start_from + csize - 1) \div csize

\* C1: for every prefix, start_from in [0, SPACE) and positive chunk_size the
\* chunks yielded for the prefix are [start_from + k*chunk_size,
\* min(start_from + (k+1)*chunk_size, SPACE)), k = 0, 1, ...: start < end <=
\* SPACE, only the last is shorter than chunk_size, each begins where the one
\* before it ended, and when the planner is exhausted they reach SPACE.
C1_ChunksPartitionSpace ==
    LET s == plan_args.start_from
        c == plan_args.chunk_size
        n == PlanCount(s, c)
        out == plan_out.chunks
    IN plan_args.variant # "none" =>
       /\ \A i \in 1..Len(out) :
            LET k == (i - 1) % n
                j == ((i - 1) \div n) + 1
            IN /\ j <= Len(plan_args.codes)
               /\ out[i].area_code = plan_args.codes[j]
               /\ out[i].start = s + k * c
               /\ out[i].end = Min(s + (k + 1) * c, SPACE)
               /\ out[i].start < out[i].end
               /\ out[i].end <= SPACE
               /\ out[i].end - out[i].start <= c
               /\ (out[i].end - out[i].start < c => out[i].end = SPACE)
               /\ (k > 0 => out[i].start = out[i - 1].end)
               /\ (k = 0 => out[i].start = s)
               /\ (k = 0 /\ i > 1 => out[i - 1].end = SPACE)
       /\ plan_out.done =>
            /\ Len(out) = n * Len(plan_args.codes)
            /\ Len(out) > 0 => out[Len(out)].end = SPACE

\* two prefixes, a chunk size that does not divide what is left: the last
\* chunk of each prefix is the short one
C1_Witness ==
    /\ plan_args.variant = "generator"
    /\ plan_out.done
    /\ Len(plan_args.codes) = 2
    /\ plan_args.start_from = 1
    /\ plan_args.chunk_size = 3000000
    /\ Len(plan_out.chunks) = 8
    /\ plan_out.chunks[4].end - plan_out.chunks[4].start = 999999

\* C2: a run that resumed from a saved offset and ran to completion leaves
\* an output file holding every number of every prefix exactly once.
C2_ResumeCompletesExactlyOnce ==
    (pc = "done" /\ resumed) =>
       \A j \in 1..Len(area_codes) : \A k \in ChunkIndexes :
          /\ Copies(OutFile, COUNTRY, area_codes[j], FirstOf(k)) = 1
          /\ Copies(OutFile, COUNTRY, area_codes[j], LastOf(k)) = 1

\* C3: when an interrupt made the controller save the offset, every chunk
\* of every prefix that lies below the saved offset is completely in the
\* output file.
C3_SavedOffsetOnlyWrittenChunks ==
    (pc \in {"exiting", "exited"} /\ last_writer = "controller"
        /\ tasks # << >>) =>
       \A j \in 1..Len(area_codes) : \A k \in ChunkIndexes :
          (LastOf(k) < progress_json.start_from) =>
             /\ Copies(OutFile, COUNTRY, area_codes[j], FirstOf(k)) >= 1
             /\ Copies(OutFile, COUNTRY, area_codes[j], LastOf(k)) >= 1

RECURSIVE LinesOfTasks(_)
LinesOfTasks(ids) ==
    IF ids = {} THEN 0
    ELSE LET t == CHOOSE x \in ids : TRUE
         IN (written[t] \div LineLen(tasks[t])) + LinesOfTasks(ids \ {t})

TasksOfPlace(j) ==
    LET n == NTasks \div Len(area_codes)
    IN {t \in TaskIds : ((t - 1) \div n) + 1 = j}

\* C5: a run that completes after starting at offset start_from has written
\* SPACE - start_from lines for each prefix.
C5_LinesWrittenPerPrefix ==
    pc = "done" =>
       \A j \in 1..Len(area_codes) :
          LinesOfTasks(TasksOfPlace(j)) = SPACE - run_start

\* C6: whatever progress.json holds, the run does not crash, and unless the
\* file is the expected record with this run's identity the run starts at 0.
ExpectedRecord(file, outfile) ==
    /\ file.kind = "dict"
    /\ file.start_kind = "int"
    /\ file.output_file = outfile
C6_LoadNeverCrashes ==
    /\ pc # "crashed"
    /\ (pc = "running"
          /\ ~ExpectedRecord(progress_json, current_output_file))
       => (run_start = 0 /\ ~resumed)

\* C7: a run resumes from a saved record only if the record's identity,
\* prefix set and output target, is that of the run.
C7_OnlyMatchingIdentityHonored ==
    (pc = "running" /\ resumed) =>
       /\ progress.output_file = current_output_file
       /\ saved_by = area_codes

\* C8: an interrupt while Running saves the offset before the process ends,
\* and once it has been received no chunk is started.
C8_SaveThenStop ==
    [][/\ (pc = "running" /\ pc' = "exiting") =>
             progress_json' = Record(global_start_from, current_state_name,
                                     current_output_file)
       /\ pc = "exiting" =>
             \A t \in TaskIds :
                (status[t] # "running") => (status'[t] # "running")]_vars

\* C9: no worker process ever writes progress.json.
C9_ControllerIsSingleWriter ==
    last_writer # "worker"

\* C10: within one run no chunk (prefix, start, end) is handed out twice, and
\* a chunk that succeeded is in the file exactly once.
C10_NoChunkTwice ==
    /\ \A t, u \in TaskIds : (t # u) => (tasks[t] # tasks[u])
    /\ (~resumed) =>
          \A t \in TaskIds :
             status[t] = "done" =>
                Copies(OutFile, COUNTRY, tasks[t].area_code, tasks[t].start)
                   = 1

\* C11: a chunk task that fails is an error of that chunk only: no other
\* chunk task of the run is cancelled because of it, and when the run has
\* ended every other chunk task has run to completion.
C11_FailureLeavesSiblingsRunning ==
    (interrupts = 0 /\ \E t \in TaskIds : status[t] = "failed") =>
       /\ \A t \in TaskIds : status[t] # "cancelled"
       /\ pc \in {"failed", "done"} =>
             \A t \in TaskIds : status[t] \in {"failed", "done"}

\* C12: a run that has ended Failed because of a chunk's error leaves
\* progress.json holding this run's record with the offset of the chunks
\* known to be written.
C12_FailedRunLeavesProgress ==
    (pc = "failed" /\ interrupts = 0) =>
       /\ ExpectedRecord(progress_json, current_output_file)
       /\ progress_json.start_from = global_start_from

\* C13: progress.json is removed when, and only when, the run has completed
\* with no chunk left and every chunk task successful: no step removes it
\* in any other situation, and after a Completed run it is not there.
C13_ProgressRemovedOnlyOnCompletion ==
    /\ [](pc = "done" => progress_json = Absent)
    /\ [][(progress_json # Absent /\ progress_json' = Absent) =>
             /\ pc' = "done"
             /\ yielded = NTasks
             /\ \A t \in TaskIds : status[t] = "done"]_vars

\* C14: the exit status is 0 when the run has ended Completed or cleanly
\* Interrupted, and not 0 when a chunk task failed and no interrupt ended
\* the run.
C14_ExitCodes ==
    /\ pc \in {"done", "exited"} => exit_code = 0
    /\ (pc \in {"done", "exited", "failed"} /\ interrupts = 0
          /\ \E t \in TaskIds : status[t] = "failed") => exit_code # 0

\* whole lines in the files the chunks of this run are written to
RunFiles == {tasks[t].outfile : t \in TaskIds}
RECURSIVE LinesIn(_)
LinesIn(files) ==
    IF files = {} THEN 0
    ELSE LET f == CHOOSE x \in files : TRUE
         IN WholeLines(out_files[f]) + LinesIn(files \ {f})

\* C20: a run that does not resume starts at offset 0 with its output empty
\* before any chunk is written, so that when it has completed with every
\* chunk successful its output holds (number of prefixes) * SPACE lines; a
\* run that resumes only appends: no file shrinks or loses its first line.
C20_FreshRunEmptiesResumeAppends ==
    /\ []((pc = "running" /\ ~resumed) =>
            /\ run_start = 0
            /\ (\A t \in TaskIds : written[t] = 0) => LinesIn(RunFiles) = 0)
    /\ []((pc = "done" /\ ~resumed /\ \A t \in TaskIds : status[t] = "done")
            => LinesIn(RunFiles) = Len(area_codes) * SPACE)
    /\ [][(resumed /\ resumed') =>
             \A f \in DOMAIN out_files :
                /\ FileSize(out_files'[f]) >= FileSize(out_files[f])
                /\ out_files[f].head # NoLine =>
                      out_files'[f].head = out_files[f].head]_vars

\* C15: a completed run over a single prefix from offset 0 has handed out
\* SPACE / chunk_size chunks and, whatever the number of processes, its
\* file holds SPACE lines, the first that of number 0000000 and the last
\* that of number 9999999 of the prefix.
C15_FirstAndLastLine ==
    (pc = "done" /\ ~resumed /\ Len(area_codes) = 1) =>
       /\ NTasks = SPACE \div chunk_size
       /\ WholeLines(OutFile) = SPACE
       /\ OutFile.head = Line(area_codes[1], 0)
       /\ OutFile.tail = Line(area_codes[1], SPACE - 1)

\* C16: the chunks come out (and are submitted to the pool, which happens
\* as they come out) prefix by prefix in the order of the list, and within
\* a prefix in strictly ascending order of start.
C16_PrefixThenAscendingStart ==
    LET out == plan_out.chunks
        n == PlanCount(plan_args.start_from, plan_args.chunk_size)
    IN \A i, k \in 1..Len(out) :
          (i < k) =>
             LET pi == ((i - 1) \div n) + 1
                 pk == ((k - 1) \div n) + 1
             IN /\ out[i].area_code = plan_args.codes[pi]
                /\ out[k].area_code = plan_args.codes[pk]
                /\ pi <= pk
                /\ (pi = pk) => (out[i].start < out[k].start)

\* the list of two prefixes is complete: the last chunk of the first prefix
\* is followed by the first chunk of the second
C16_Witness ==
    /\ plan_args.variant = "list"
    /\ plan_out.done
    /\ plan_args.codes = <<"212", "415">>
    /\ plan_args.start_from = 0
    /\ plan_args.chunk_size = 2500000
    /\ Len(plan_out.chunks) = 8
    /\ plan_out.chunks[4].area_code = "212"
    /\ plan_out.chunks[5].area_code = "415"
    /\ plan_out.chunks[5].start < plan_out.chunks[4].start

\* the offset progress.json holds, 0 when it holds none
PersistedOffset ==
    IF progress_json.kind = "dict" /\ progress_json.start_kind = "int"
    THEN progress_json.start_from ELSE 0

\* C17: while Running, without any interrupt, the offset in progress.json
\* lags the controller's completed offset by at most N chunks for a fixed N
\* below the number of chunks of the run (the weakest such N is taken).
C17_PeriodicSave ==
    (pc = "running" /\ NTasks > 1) =>
       global_start_from - PersistedOffset <= (NTasks - 1) * chunk_size

\* the state of the controller's state machine
Phase(p) ==
    IF p \in {"prompt_config", "prompt_resume"} THEN "Configuring"
    ELSE IF p = "running" THEN "Running"
    ELSE IF p = "done" THEN "Completed"
    ELSE IF p \in {"exiting", "exited"} THEN "Interrupted"
    ELSE "Failed"

\* C18: the controller goes Configuring -> (Planning ->) Running -> one of
\* Completed, Interrupted, Failed; these three are entered from Running
\* only and never left.
C18_StateMachine ==
    [][(Phase(pc') # Phase(pc)) =>
          \/ Phase(pc) = "Configuring" /\ Phase(pc') = "Running"
          \/ /\ Phase(pc) = "Running"
             /\ Phase(pc') \in {"Completed", "Interrupted", "Failed"}]_vars

\* C19: the controller's offset, and the offset a record in progress.json
\* holds, is always in [0, SPACE].
C19_OffsetInSpace ==
    /\ global_start_from \in 0..SPACE
    /\ PersistedOffset \in 0..SPACE

\* C21: while the program is still asking for its configuration (before
\* Running) no step, an interrupt included, changes a progress.json that
\* exists: its offset and identity stay what they were.
C21_PromptInterruptKeepsProgress ==
    [][(pc \in {"prompt_config", "prompt_resume"}
          /\ progress_json.kind # "absent")
       => progress_json' = progress_json]_vars

=============================================================================
